---- MODULE Spec2Model ----
(***************************************************************************)
(* Model of the Cloudflare DDNS updater (cmd/updater).                     *)
(*                                                                         *)
(* The repository holds two builds of the same program:                    *)
(*   "sdk" - cmd/updater/main.go, talking to the provider through the      *)
(*           cloudflare-go v2 client (PUT update, extractARecordIP);       *)
(*   "raw" - the earlier build speaking JSON over net/http directly        *)
(*           (PATCH update, applyAuthHeaders).                             *)
(* loadConfig and discoverIP are identical in both.  The variable          *)
(* `variant` says which build is running.                                  *)
(*                                                                         *)
(* Text is modelled in two ways.  Environment values, keys, names and      *)
(* URLs are sequences of one-character strings, and TrimSpace, ToLower,    *)
(* ToUpper, Atoi and Split work on the characters.  Text that is read as   *)
(* an IP address (a service's response body, a record's content) is a      *)
(* record [form, addr, pad]: the syntactic form of the text, the address   *)
(* it spells, and whether white space surrounds it.                        *)
(***************************************************************************)
EXTENDS Integers, Sequences, FiniteSets, TLC

VARIABLES
    variant,    \* which build of the program runs: "sdk" or "raw"
    env,        \* the process environment (os.Getenv)
    zone,       \* the provider's records of the zone, in provider order
    pass,       \* number of the current invocation of the binary
    pc,         \* position of main() in the current invocation
    cfg,        \* main's cfg
    svcIdx,     \* discoverIP: index of the next entry of services
    tried,      \* discoverIP: what happened at each entry visited so far
    ip,         \* main's ip
    client,     \* sdk build: the request options of the cloudflare client
    listResp,   \* what the list request of this invocation came back with
    record,     \* main's record
    currentIP,  \* main's currentIP (sdk build)
    requests,   \* the provider requests sent in this invocation, in order
    err,        \* the error that ended the invocation, "none" without one
    visited,    \* the driver states this invocation has entered, in order
    exitCode,   \* exit status of the invocation, -1 while it runs
    edited,     \* someone else changed the zone since the last invocation
    history     \* what the earlier invocations ended with

vars == <<variant, env, zone, pass, pc, cfg, svcIdx, tried, ip, client,
          listResp, record, currentIP, requests, err, visited, exitCode,
          edited, history>>

(***************************************************************************)
(* Bounds of the model.                                                    *)
(***************************************************************************)
MaxPasses == 2

\* changes made to the zone by someone else, over all invocations
MaxEdits == 1

(***************************************************************************)
(* Character strings.                                                      *)
(***************************************************************************)
LowerLetters ==
    <<"a","b","c","d","e","f","g","h","i","j","k","l","m",
      "n","o","p","q","r","s","t","u","v","w","x","y","z">>

UpperLetters ==
    <<"A","B","C","D","E","F","G","H","I","J","K","L","M",
      "N","O","P","Q","R","S","T","U","V","W","X","Y","Z">>

Digits == <<"0","1","2","3","4","5","6","7","8","9">>

IndexIn(c, letters) ==
    IF \E i \in 1..Len(letters) : letters[i] = c
    THEN CHOOSE i \in 1..Len(letters) : letters[i] = c
    ELSE 0

\* unicode.IsSpace for the characters the model uses
IsSpace(c) == c \in {" ", "\t", "\n", "\r"}

RECURSIVE TrimLeft(_)
TrimLeft(s) ==
    IF s # <<>> /\ IsSpace(Head(s)) THEN TrimLeft(Tail(s)) ELSE s

RECURSIVE TrimRight(_)
TrimRight(s) ==
    IF s # <<>> /\ IsSpace(s[Len(s)])
    THEN TrimRight(SubSeq(s, 1, Len(s) - 1))
    ELSE s

\* strings.TrimSpace
TrimSpace(s) == TrimRight(TrimLeft(s))

\* strings.ToLower
ToLower(s) ==
    [i \in 1..Len(s) |->
        IF IndexIn(s[i], UpperLetters) # 0
        THEN LowerLetters[IndexIn(s[i], UpperLetters)]
        ELSE s[i]]

\* strings.ToUpper
ToUpper(s) ==
    [i \in 1..Len(s) |->
        IF IndexIn(s[i], LowerLetters) # 0
        THEN UpperLetters[IndexIn(s[i], LowerLetters)]
        ELSE s[i]]

RECURSIVE DigitsValue(_)
DigitsValue(s) ==
    IF s = <<>> THEN 0
    ELSE 10 * DigitsValue(SubSeq(s, 1, Len(s) - 1))
         + (IndexIn(s[Len(s)], Digits) - 1)

\* strconv.Atoi: an optional sign followed by one or more decimal digits
Atoi(s) ==
    LET signed == s # <<>> /\ s[1] \in {"+", "-"}
        body   == IF signed THEN Tail(s) ELSE s
        ok     == /\ body # <<>>
                  /\ \A i \in 1..Len(body) : IndexIn(body[i], Digits) # 0
    IN  IF ~ok THEN [err |-> TRUE, val |-> 0]
        ELSE [err |-> FALSE,
              val |-> IF signed /\ s[1] = "-"
                      THEN 0 - DigitsValue(body)
                      ELSE DigitsValue(body)]

\* strings.Split(s, ","): the pieces between the commas, empty ones included
RECURSIVE Split(_)
Split(s) ==
    IF \E i \in 1..Len(s) : s[i] = ","
    THEN LET i == CHOOSE k \in 1..Len(s) :
                      /\ s[k] = ","
                      /\ \A j \in 1..(k - 1) : s[j] # ","
         IN  <<SubSeq(s, 1, i - 1)>> \o Split(SubSeq(s, i + 1, Len(s)))
    ELSE <<s>>

(***************************************************************************)
(* Configuration: constants, Config and loadConfig.                        *)
(***************************************************************************)
defaultTTL == 300

defaultRecordType == <<"A">>

defaultIPServices ==
    << <<"h","t","t","p","s",":","/","/","a","p","i",".","i","p","i","f","y",
         ".","o","r","g">>,
       <<"h","t","t","p","s",":","/","/","i","p","v","4",".","i","c","a","n",
         "h","a","z","i","p",".","c","o","m">>,
       <<"h","t","t","p","s",":","/","/","i","p","i","n","f","o",".","i","o",
         "/","i","p">> >>

\* a variant of minTTL one second lower
minTTLLow == 60 - 1

\* the smallest TTL loadConfig accepts
minTTL == 60

methodToken == <<"t","o","k","e","n">>

methodGlobal == <<"g","l","o","b","a","l">>

textTrue == <<"t","r","u","e">>

textFalse == <<"f","a","l","s","e">>

\* Config{}: the zero value
ZeroConfig ==
    [AuthEmail |-> <<>>, AuthMethod |-> <<>>, AuthKey |-> <<>>,
     ZoneID |-> <<>>, RecordName |-> <<>>, RecordType |-> <<>>,
     TTL |-> 0, Proxied |-> FALSE, IPServices |-> <<>>]

\* the loop of loadConfig over strings.Split(servicesValue, ","):
\* the trimmed pieces that are not empty, in order
RECURSIVE TrimmedServices(_)
TrimmedServices(raw) ==
    IF raw = <<>> THEN <<>>
    ELSE LET trimmed == TrimSpace(Head(raw))
         IN  (IF trimmed # <<>> THEN <<trimmed>> ELSE <<>>)
             \o TrimmedServices(Tail(raw))

\* a variant of LoadIPServices without the fallback after the loop
LoadIPServicesKeepsEmpty(value) ==
    LET servicesValue == TrimSpace(value)
    IN  IF servicesValue = <<>> THEN defaultIPServices
        ELSE TrimmedServices(Split(servicesValue))

\* the IPServices that loadConfig computes from CF_IP_SERVICES
LoadIPServices(value) ==
    LET servicesValue == TrimSpace(value)
    IN  IF servicesValue = <<>> THEN defaultIPServices
        ELSE LET listed0 == TrimmedServices(Split(servicesValue))
             IN  IF Len(listed0) = 0 THEN defaultIPServices ELSE listed0

\* loadConfig: [err, cfg]; e is the environment
loadConfig(e) ==
    LET method0  == ToLower(TrimSpace(e.CF_AUTH_METHOD))
        type0    == ToUpper(TrimSpace(e.CF_RECORD_TYPE))
        base     == [AuthEmail  |-> TrimSpace(e.CF_AUTH_EMAIL),
                     AuthMethod |-> IF method0 = <<>> THEN methodToken
                                    ELSE method0,
                     AuthKey    |-> TrimSpace(e.CF_AUTH_KEY),
                     ZoneID     |-> TrimSpace(e.CF_ZONE_ID),
                     RecordName |-> TrimSpace(e.CF_RECORD_NAME),
                     RecordType |-> IF type0 = <<>> THEN defaultRecordType
                                    ELSE type0]
        ttlValue == TrimSpace(e.CF_TTL)
        ttl      == Atoi(ttlValue)
        proxiedValue == ToLower(TrimSpace(e.CF_PROXIED))
        failed   == [err |-> TRUE, cfg |-> ZeroConfig]
    IN  IF ttlValue # <<>> /\ (ttl.err \/ ttl.val < minTTL) THEN failed
        ELSE IF proxiedValue \notin {<<>>, textFalse, textTrue} THEN failed
        ELSE IF base.AuthKey = <<>> THEN failed
        ELSE IF base.AuthMethod \notin {methodToken, methodGlobal} THEN failed
        ELSE IF base.AuthMethod = methodGlobal /\ base.AuthEmail = <<>>
             THEN failed
        ELSE IF base.ZoneID = <<>> THEN failed
        ELSE IF base.RecordName = <<>> THEN failed
        ELSE IF base.RecordType # <<"A">> THEN failed
        ELSE [err |-> FALSE,
              cfg |-> [AuthEmail  |-> base.AuthEmail,
                       AuthMethod |-> base.AuthMethod,
                       AuthKey    |-> base.AuthKey,
                       ZoneID     |-> base.ZoneID,
                       RecordName |-> base.RecordName,
                       RecordType |-> base.RecordType,
                       TTL        |-> IF ttlValue = <<>> THEN defaultTTL
                                      ELSE ttl.val,
                       Proxied    |-> proxiedValue = textTrue,
                       IPServices |-> LoadIPServices(e.CF_IP_SERVICES)]]

(***************************************************************************)
(* Text read as an IP address, and package net.                            *)
(*   form "dotted": dotted-decimal IPv4 text, as 198.51.100.2              *)
(*   form "mapped": the IPv4-mapped IPv6 text, as ::ffff:198.51.100.2      *)
(*   form "v6":     any other IPv6 text, as 2001:db8::2                    *)
(*   form "other":  text that is no IP address, as not-an-ip or nothing    *)
(* addr names the address the text spells (0 when it spells none); pad     *)
(* says that white space precedes or follows it.                           *)
(***************************************************************************)
Addrs == {1, 2}

Text(form, addr, pad) == [form |-> form, addr |-> addr, pad |-> pad]

NoText == Text("other", 0, FALSE)

\* a nil net.IP
NilIP == [nil |-> TRUE, v4 |-> FALSE, addr |-> 0]

\* strings.TrimSpace on such a text
TrimSpaceText(t) == [t EXCEPT !.pad = FALSE]

\* net.ParseIP: nil unless the whole text is an address; an IPv4 address and
\* its IPv4-mapped IPv6 spelling parse to the same 16 bytes
ParseIP(t) ==
    IF t.pad \/ t.form = "other" THEN NilIP
    ELSE [nil |-> FALSE, v4 |-> t.form \in {"dotted", "mapped"},
          addr |-> t.addr]

\* net.IP.To4: the 4-byte form, nil when the address is no IPv4 address
To4(parsed) == IF parsed.v4 THEN parsed ELSE NilIP

\* net.IP.String of a 4-byte address: dotted decimal
IPString(parsed4) == Text("dotted", parsed4.addr, FALSE)

(***************************************************************************)
(* discoverIP: one iteration of `for _, svc := range services`.            *)
(***************************************************************************)
\* what client.Do(req) and io.ReadAll(resp.Body) can give for one service
ServiceResponses ==
    {[kind |-> "transport", status |-> 0, body |-> NoText],
     [kind |-> "read", status |-> 200, body |-> NoText]}
    \cup {[kind |-> "body", status |-> 200, body |-> b] :
            b \in {Text("dotted", 1, FALSE), Text("dotted", 2, FALSE),
                   Text("dotted", 1, TRUE), Text("mapped", 1, FALSE),
                   Text("v6", 2, FALSE), Text("other", 0, FALSE)}}
    \cup {[kind |-> "body", status |-> 500, body |-> b] :
            b \in {Text("other", 0, FALSE), Text("dotted", 2, FALSE)}}

\* the entry of `tried` for a service that got no request
NoResponse == [kind |-> "none", status |-> 0, body |-> NoText]

\* http.NewRequest fails when the URL does not parse; the model knows one
\* such URL shape, a leading colon ("missing protocol scheme")
NewRequestFails(svc) == svc[1] = ":"

\* a variant of DiscoverOne that skips a response whose status is not 2xx
DiscoverOneChecksStatus(resp) ==
    LET continue == [found |-> FALSE, ip |-> NoText]
    IN  IF resp.kind # "body" THEN continue
        ELSE IF resp.status < 200 \/ resp.status > 299 THEN continue
        ELSE LET parsed == ParseIP(TrimSpaceText(resp.body))
             IN  IF parsed = NilIP THEN continue
                 ELSE IF To4(parsed) = NilIP THEN continue
                 ELSE [found |-> TRUE, ip |-> IPString(To4(parsed))]

\* a variant of DiscoverOne without the To4 test: any address is returned
DiscoverOneAnyFamily(resp) ==
    LET continue == [found |-> FALSE, ip |-> NoText]
    IN  IF resp.kind # "body" THEN continue
        ELSE LET parsed == ParseIP(TrimSpaceText(resp.body))
             IN  IF parsed = NilIP THEN continue
                 ELSE [found |-> TRUE,
                       ip |-> Text(IF parsed.v4 THEN "dotted" ELSE "v6",
                                   parsed.addr, FALSE)]

\* the body of the loop for one response: [found, ip], found = FALSE for
\* `continue`
DiscoverOne(resp) ==
    LET continue == [found |-> FALSE, ip |-> NoText]
    IN  IF resp.kind # "body" THEN continue
        ELSE LET parsed == ParseIP(TrimSpaceText(resp.body))
             IN  IF parsed = NilIP THEN continue
                 ELSE IF To4(parsed) = NilIP THEN continue
                 ELSE [found |-> TRUE, ip |-> IPString(To4(parsed))]

(***************************************************************************)
(* Authentication of the provider requests.                                *)
(***************************************************************************)
bearerPrefix == <<"B","e","a","r","e","r"," ">>

\* a variant of applyAuthHeaders that sends the key without "Bearer "
applyAuthHeadersBareKey(c) ==
    (IF c.AuthEmail # <<>> THEN {<<"X-Auth-Email", c.AuthEmail>>} ELSE {})
    \cup (IF c.AuthMethod = methodGlobal
          THEN {<<"X-Auth-Key", c.AuthKey>>}
          ELSE {<<"Authorization", c.AuthKey>>})

\* a variant of applyAuthHeaders whose global branch does not return
applyAuthHeadersNoReturn(c) ==
    (IF c.AuthEmail # <<>> THEN {<<"X-Auth-Email", c.AuthEmail>>} ELSE {})
    \cup (IF c.AuthMethod = methodGlobal
          THEN {<<"X-Auth-Key", c.AuthKey>>} ELSE {})
    \cup {<<"Authorization", bearerPrefix \o c.AuthKey>>}

\* raw build: the headers applyAuthHeaders sets on a request
applyAuthHeaders(c) ==
    (IF c.AuthEmail # <<>> THEN {<<"X-Auth-Email", c.AuthEmail>>} ELSE {})
    \cup (IF c.AuthMethod = methodGlobal
          THEN {<<"X-Auth-Key", c.AuthKey>>}
          ELSE {<<"Authorization", bearerPrefix \o c.AuthKey>>})

\* sdk build: newCloudflareClient, as the headers its options put on every
\* request of the client (WithAPIToken: Authorization: Bearer <token>;
\* WithAPIKey: X-Auth-Key; WithAPIEmail: X-Auth-Email): [err, headers]
newCloudflareClient(c) ==
    IF c.AuthMethod = methodToken
    THEN [err |-> FALSE,
          headers |-> {<<"Authorization", bearerPrefix \o c.AuthKey>>}]
    ELSE IF c.AuthMethod = methodGlobal
    THEN [err |-> FALSE,
          headers |-> {<<"X-Auth-Key", c.AuthKey>>,
                       <<"X-Auth-Email", c.AuthEmail>>}]
    ELSE [err |-> TRUE, headers |-> {}]

\* the authentication headers a request of the running build carries
AuthHeaders == IF variant = "raw" THEN applyAuthHeaders(cfg) ELSE client

(***************************************************************************)
(* The provider: the zone's records, the list query and the update.        *)
(* A record is [ID, Type, Name, Content, TTL, Proxied].                    *)
(***************************************************************************)
NoRecord ==
    [ID |-> "", Type |-> <<>>, Name |-> <<>>, Content |-> NoText,
     TTL |-> 0, Proxied |-> FALSE]

RECURSIVE SelectRecords(_, _, _)
SelectRecords(z, name, type) ==
    IF z = <<>> THEN <<>>
    ELSE (IF Head(z).Name = name /\ Head(z).Type = type
          THEN <<Head(z)>> ELSE <<>>)
         \o SelectRecords(Tail(z), name, type)

\* the records the list query selects: those of the zone with the queried
\* name and type, in provider order
Matching(c) == SelectRecords(zone, c.RecordName, c.RecordType)

\* a list result whose first record comes back with a type that is not "A"
Mistyped(result) ==
    [result EXCEPT ![1] = [result[1] EXCEPT !.Type = <<"T","X","T">>]]

\* what the list request can come back with.
\* raw build, as the source reads the wire: a transport error, a status
\* that is not 200, a body that does not decode, or a decoded listResponse.
\* sdk build, as client.DNS.Records.List returns: an error (of the
\* transport, or the provider's own error payload) or a page.
ListOutcomes(c) ==
    LET results == {Matching(c)}
                   \cup (IF Matching(c) # <<>>
                         THEN {Mistyped(Matching(c))} ELSE {})
    IN  IF variant = "raw"
        THEN {[kind |-> k, success |-> FALSE, result |-> <<>>] :
                 k \in {"transport", "status", "undecodable"}}
             \cup {[kind |-> "json", success |-> FALSE, result |-> r] :
                     r \in {<<>>, Matching(c)}}
             \cup {[kind |-> "json", success |-> TRUE, result |-> r] :
                     r \in results}
        ELSE {[kind |-> k, success |-> FALSE, result |-> <<>>] :
                 k \in {"transport", "apierror"}}
             \cup {[kind |-> "page", success |-> TRUE, result |-> r] :
                     r \in results}

\* a variant of fetchDNSRecord that returns whatever it has when the
\* request failed
fetchDNSRecordSwallowsErrors(c, out) ==
    IF Len(out.result) = 0 THEN [err |-> "none", record |-> NoRecord]
    ELSE [err |-> "none", record |-> out.result[1]]

\* a variant of fetchDNSRecord without the test of payload.Success
fetchDNSRecordNoSuccessCheck(c, out) ==
    LET fail(e) == [err |-> e, record |-> NoRecord]
    IN  IF out.kind \in {"transport", "status"}
        THEN fail("ProviderRequestFailed")
        ELSE IF out.kind = "undecodable" THEN fail("DecodeFailed")
        ELSE IF Len(out.result) = 0 THEN fail("RecordNotFound")
        ELSE [err |-> "none", record |-> out.result[1]]

\* a variant of fetchDNSRecord that goes on with a new, empty record when
\* none matches
fetchDNSRecordCreatesMissing(c, out) ==
    LET fail(e) == [err |-> e, record |-> NoRecord]
    IN  IF out.kind \in {"transport", "status"}
        THEN fail("ProviderRequestFailed")
        ELSE IF out.kind = "undecodable" THEN fail("DecodeFailed")
        ELSE IF ~out.success THEN fail("ProviderRejected")
        ELSE IF Len(out.result) = 0
        THEN [err |-> "none", record |-> NoRecord]
        ELSE [err |-> "none", record |-> out.result[1]]

\* a variant of fetchDNSRecord that takes the last record of the result
fetchDNSRecordTakesLast(c, out) ==
    LET fail(e) == [err |-> e, record |-> NoRecord]
    IN  IF out.kind \in {"transport", "status"}
        THEN fail("ProviderRequestFailed")
        ELSE IF out.kind = "undecodable" THEN fail("DecodeFailed")
        ELSE IF out.kind = "apierror" THEN fail("ProviderRejected")
        ELSE IF ~out.success THEN fail("ProviderRejected")
        ELSE IF Len(out.result) = 0 THEN fail("RecordNotFound")
        ELSE [err |-> "none", record |-> out.result[Len(out.result)]]

\* fetchDNSRecord on a list outcome: [err, record]
fetchDNSRecord(c, out) ==
    LET fail(e) == [err |-> e, record |-> NoRecord]
    IN  IF variant = "raw"
        THEN IF out.kind = "transport" THEN fail("ProviderRequestFailed")
             ELSE IF out.kind = "status" THEN fail("ProviderRequestFailed")
             ELSE IF out.kind = "undecodable" THEN fail("DecodeFailed")
             ELSE IF ~out.success THEN fail("ProviderRejected")
             ELSE IF Len(out.result) = 0 THEN fail("RecordNotFound")
             ELSE [err |-> "none", record |-> out.result[1]]
        ELSE IF out.kind = "transport" THEN fail("ProviderRequestFailed")
             ELSE IF out.kind = "apierror" THEN fail("ProviderRejected")
             ELSE IF Len(out.result) = 0 THEN fail("RecordNotFound")
             ELSE [err |-> "none", record |-> out.result[1]]

\* a variant of extractARecordIP that returns the content as it is
extractARecordIPNoTrim(r) ==
    IF r.Type # <<"A">> THEN [err |-> TRUE, ip |-> NoText]
    ELSE [err |-> FALSE, ip |-> r.Content]

\* sdk build, extractARecordIP: [err, ip]; record.AsUnion() is a dns.ARecord
\* exactly when the record's type is "A"
extractARecordIP(r) ==
    IF r.Type # <<"A">> THEN [err |-> TRUE, ip |-> NoText]
    ELSE [err |-> FALSE, ip |-> TrimSpaceText(r.Content)]

\* a variant of UpdatePayload that sends the record's content back
UpdatePayloadStale(c, newIP) ==
    [Type    |-> IF variant = "raw" THEN c.RecordType ELSE <<"A">>,
     Name    |-> c.RecordName,
     Content |-> record.Content,
     TTL     |-> c.TTL,
     Proxied |-> c.Proxied]

\* a variant of UpdatePayload that republishes the record's own TTL and
\* proxied flag
UpdatePayloadKeepsRecord(c, newIP) ==
    [Type    |-> IF variant = "raw" THEN c.RecordType ELSE <<"A">>,
     Name    |-> c.RecordName,
     Content |-> newIP,
     TTL     |-> record.TTL,
     Proxied |-> record.Proxied]

\* the body of the update request: raw build lines 281-287 (type from the
\* configuration), sdk build lines 276-285 (type fixed to A)
UpdatePayload(c, newIP) ==
    [Type    |-> IF variant = "raw" THEN c.RecordType ELSE <<"A">>,
     Name    |-> c.RecordName,
     Content |-> newIP,
     TTL     |-> c.TTL,
     Proxied |-> c.Proxied]

\* what the update request can come back with, and whether the provider
\* applied the update ("lost": applied, the response never arrived)
UpdateOutcomes ==
    IF variant = "raw"
    THEN {[kind |-> "transport", applied |-> FALSE],
          [kind |-> "lost", applied |-> TRUE],
          [kind |-> "status", applied |-> FALSE],
          [kind |-> "undecodable", applied |-> FALSE],
          [kind |-> "rejected", applied |-> FALSE],
          [kind |-> "ok", applied |-> TRUE]}
    ELSE {[kind |-> "transport", applied |-> FALSE],
          [kind |-> "lost", applied |-> TRUE],
          [kind |-> "rejected", applied |-> FALSE],
          [kind |-> "ok", applied |-> TRUE]}

\* updateDNSRecord on an update outcome: the error, "none" for nil
updateDNSRecord(out) ==
    IF out.kind = "ok" THEN "none"
    ELSE IF out.kind = "undecodable" THEN "DecodeFailed"
    ELSE IF out.kind = "rejected" THEN "ProviderRejected"
    ELSE "ProviderRequestFailed"

\* the provider applying an update to the record with the given identifier
ApplyUpdate(z, id, payload) ==
    [i \in 1..Len(z) |->
        IF z[i].ID = id
        THEN [ID |-> id, Type |-> payload.Type, Name |-> payload.Name,
              Content |-> payload.Content, TTL |-> payload.TTL,
              Proxied |-> payload.Proxied]
        ELSE z[i]]

(***************************************************************************)
(* The environments and zones the model starts from.                       *)
(***************************************************************************)
Environment(method, key, email, ttl, proxied, services) ==
    [CF_AUTH_METHOD |-> method, CF_AUTH_KEY |-> key, CF_AUTH_EMAIL |-> email,
     CF_ZONE_ID |-> <<"Z">>, CF_RECORD_NAME |-> <<"n">>,
     CF_RECORD_TYPE |-> <<>>, CF_TTL |-> ttl, CF_PROXIED |-> proxied,
     CF_IP_SERVICES |-> services]

\* only the required variables are set: token method, default services
EnvDefaults == Environment(<<>>, <<"K">>, <<>>, <<>>, <<>>, <<>>)

\* token method with an email, two services
EnvTokenEmail ==
    Environment(<<" ","T","O","K","E","N">>, <<"K">>, <<"e","@","x">>,
                <<"1","2","0">>, <<"T","R","U","E">>,
                <<"a",","," ","b">>)

\* global-key method, a service list holding a URL that does not parse
EnvGlobal ==
    Environment(methodGlobal, <<"G">>, <<"e","@","x">>, <<>>,
                textTrue, <<":","x",",","a">>)

\* global-key method without the email: loadConfig fails
EnvGlobalNoEmail ==
    Environment(methodGlobal, <<"G">>, <<" ">>, <<>>, <<>>, <<"a">>)

\* token method without an email, one service
EnvToken == Environment(methodToken, <<"K">>, <<>>, <<>>, <<>>, <<"a">>)

Envs == {EnvToken, EnvTokenEmail, EnvGlobal, EnvGlobalNoEmail}

\* the values each variable takes in the environments loadConfig is
\* examined on: unset, blank, valid, valid in another spelling, invalid
MethodValues ==
    {<<>>, <<" ","T","O","K","E","N">>, <<"G","l","o","b","a","l">>,
     <<"k","e","y">>}

KeyValues == {<<>>, <<" ">>, <<" ","K"," ">>}

EmailValues == {<<>>, <<" ">>, <<"e","@","x">>}

ZoneIDValues == {<<" ">>, <<"Z">>}

RecordNameValues == {<<>>, <<"n">>}

RecordTypeValues == {<<>>, <<" ","a">>, <<"A","A","A","A">>}

TTLValues ==
    {<<>>, <<"5","9">>, <<"6","0">>, <<" ","6","1"," ">>, <<"6","x">>,
     <<"-","6","1">>}

ProxiedValues == {<<>>, <<"T","R","U","E">>, <<" ","f","a","l","s","e">>,
                  <<"1">>}

IPServicesValues ==
    {<<>>, <<",">>, <<" ",","," ",",">>, <<"a">>,
     <<",","a"," ",","," ",",","b">>}

ConfigEnvs ==
    [CF_AUTH_METHOD : MethodValues, CF_AUTH_KEY : KeyValues,
     CF_AUTH_EMAIL : EmailValues, CF_ZONE_ID : ZoneIDValues,
     CF_RECORD_NAME : RecordNameValues, CF_RECORD_TYPE : RecordTypeValues,
     CF_TTL : TTLValues, CF_PROXIED : ProxiedValues,
     CF_IP_SERVICES : IPServicesValues]

ARecord(id, name, content, ttl, proxied) ==
    [ID |-> id, Type |-> <<"A">>, Name |-> name, Content |-> content,
     TTL |-> ttl, Proxied |-> proxied]

Zones ==
    {<<>>,
     <<ARecord("r1", <<"o">>, Text("dotted", 1, FALSE), 300, FALSE)>>,
     <<ARecord("r1", <<"n">>, Text("dotted", 1, FALSE), 300, FALSE)>>,
     <<ARecord("r1", <<"n">>, Text("dotted", 2, FALSE), 120, TRUE)>>,
     <<ARecord("r1", <<"n">>, Text("dotted", 1, TRUE), 300, FALSE)>>,
     <<ARecord("r1", <<"n">>, Text("mapped", 1, FALSE), 300, TRUE)>>,
     <<ARecord("r1", <<"o">>, Text("dotted", 2, FALSE), 300, FALSE),
       ARecord("r2", <<"n">>, Text("dotted", 2, FALSE), 300, FALSE),
       ARecord("r3", <<"n">>, Text("dotted", 1, FALSE), 120, FALSE)>>}

(***************************************************************************)
(* main(): one invocation of the binary, and the scheduler invoking it     *)
(* again.                                                                  *)
(***************************************************************************)
Terminal == {"NoOpDone", "Done", "Aborted"}

\* no list request has been answered yet
NoListResponse == [kind |-> "none", success |-> FALSE, result |-> <<>>]

\* the state of a process that has just been started
Started ==
    /\ pass = 1
    /\ pc = "loadConfig"
    /\ cfg = ZeroConfig
    /\ svcIdx = 1
    /\ tried = <<>>
    /\ ip = NoText
    /\ client = {}
    /\ record = NoRecord
    /\ currentIP = NoText
    /\ listResp = NoListResponse
    /\ requests = <<>>
    /\ err = "none"
    /\ visited = <<>>
    /\ exitCode = -1
    /\ edited = FALSE
    /\ history = <<>>

Init ==
    /\ variant \in {"sdk", "raw"}
    /\ env \in Envs
    /\ zone \in Zones
    /\ Started

\* a variant of Fatal that logs and returns from main
FatalReturns(e) ==
    /\ pc' = "Aborted"
    /\ err' = e
    /\ exitCode' = 0

\* log.Fatalf: the invocation ends with exit status 1
Fatal(e) ==
    /\ pc' = "Aborted"
    /\ err' = e
    /\ exitCode' = 1

\* main.go 63-66: cfg, err := loadConfig()
LoadConfig ==
    /\ pc = "loadConfig"
    /\ LET loaded == loadConfig(env)
       IN  /\ cfg' = loaded.cfg
           /\ IF loaded.err
              THEN Fatal("ConfigInvalid") /\ UNCHANGED visited
              ELSE /\ pc' = "discoverIP"
                   /\ visited' = Append(visited, "DiscoverIP")
                   /\ UNCHANGED <<err, exitCode>>
    /\ UNCHANGED <<variant, env, zone, pass, svcIdx, tried, ip, client,
                   listResp, record, currentIP, requests, edited, history>>

\* a variant of RangeDone that leaves the loop one entry early
RangeDoneEarly == svcIdx >= Len(cfg.IPServices)

\* discoverIP: `range services` has no entry left
RangeDone == svcIdx > Len(cfg.IPServices)

\* where main goes when discoverIP has returned an IP
AfterDiscovery == IF variant = "sdk" THEN "newClient" ELSE "fetchRecord"

\* discoverIP: one iteration of the loop, for the entry at svcIdx
DiscoverStep ==
    /\ pc = "discoverIP"
    /\ ~RangeDone
    /\ svcIdx' = svcIdx + 1
    /\ \/ /\ NewRequestFails(cfg.IPServices[svcIdx])
          /\ tried' = Append(tried, [svc |-> svcIdx, queried |-> FALSE,
                                     resp |-> NoResponse])
          /\ UNCHANGED <<pc, ip, visited>>
       \/ /\ ~NewRequestFails(cfg.IPServices[svcIdx])
          /\ \E resp \in ServiceResponses :
                /\ tried' = Append(tried, [svc |-> svcIdx, queried |-> TRUE,
                                           resp |-> resp])
                /\ IF ~DiscoverOne(resp).found
                   THEN UNCHANGED <<pc, ip, visited>>
                   ELSE /\ ip' = DiscoverOne(resp).ip
                        /\ pc' = AfterDiscovery
                        /\ visited' = IF variant = "raw"
                                      THEN Append(visited, "FetchRecord")
                                      ELSE visited
    /\ UNCHANGED <<variant, env, zone, pass, cfg, client, listResp, record,
                   currentIP, requests, err, exitCode, edited, history>>

\* discoverIP: the loop has run out of entries; main.go 71-73
DiscoverExhausted ==
    /\ pc = "discoverIP"
    /\ RangeDone
    /\ Fatal("DiscoveryExhausted")
    /\ UNCHANGED <<variant, env, zone, pass, cfg, svcIdx, tried, ip, client,
                   listResp, record, currentIP, requests, visited, edited,
                   history>>

\* sdk build, main.go 76-79: cfClient, err := newCloudflareClient(...)
NewCloudflareClient ==
    /\ pc = "newClient"
    /\ IF newCloudflareClient(cfg).err
       THEN Fatal("ConfigInvalid") /\ UNCHANGED <<client, visited>>
       ELSE /\ client' = newCloudflareClient(cfg).headers
            /\ pc' = "fetchRecord"
            /\ visited' = Append(visited, "FetchRecord")
            /\ UNCHANGED <<err, exitCode>>
    /\ UNCHANGED <<variant, env, zone, pass, cfg, svcIdx, tried, ip,
                   listResp, record, currentIP, requests, edited, history>>

\* a request without a body
NoPayload ==
    [Type |-> <<>>, Name |-> <<>>, Content |-> NoText, TTL |-> 0,
     Proxied |-> FALSE]

ListRequest(c) ==
    [op |-> "list", id |-> "",
     query |-> [ZoneID |-> c.ZoneID, Name |-> c.RecordName,
                Type |-> c.RecordType],
     payload |-> NoPayload, headers |-> AuthHeaders]

UpdateRequest(c, id, newIP) ==
    [op |-> "update", id |-> id,
     query |-> [ZoneID |-> c.ZoneID, Name |-> <<>>, Type |-> <<>>],
     payload |-> UpdatePayload(c, newIP), headers |-> AuthHeaders]

\* main.go 83-91 (sdk: fetchDNSRecord, then extractARecordIP);
\* raw build 99-102 (fetchDNSRecord)
FetchRecord ==
    /\ pc = "fetchRecord"
    /\ requests' = Append(requests, ListRequest(cfg))
    /\ \E out \in ListOutcomes(cfg) :
          LET fetched == fetchDNSRecord(cfg, out)
              current == extractARecordIP(fetched.record)
          IN  /\ listResp' = out
              /\ IF fetched.err # "none"
                 THEN /\ Fatal(fetched.err)
                      /\ UNCHANGED <<record, currentIP, visited>>
                 ELSE IF variant = "sdk" /\ current.err
                 THEN /\ record' = fetched.record
                      /\ Fatal("RecordUnusable")
                      /\ UNCHANGED <<currentIP, visited>>
                 ELSE /\ record' = fetched.record
                      /\ currentIP' = IF variant = "sdk" THEN current.ip
                                      ELSE NoText
                      /\ pc' = "compare"
                      /\ visited' = Append(visited, "Compare")
                      /\ UNCHANGED <<err, exitCode>>
    /\ UNCHANGED <<variant, env, zone, pass, cfg, svcIdx, tried, ip, client,
                   edited, history>>

\* a variant of UpToDate that also wants the record's TTL and proxied flag
\* to be the configured ones
UpToDateAndNoDrift ==
    /\ IF variant = "sdk" THEN currentIP = ip ELSE record.Content = ip
    /\ record.TTL = cfg.TTL
    /\ record.Proxied = cfg.Proxied

\* a variant of UpToDate with the test inverted
UpToDateInverted ==
    IF variant = "sdk" THEN currentIP # ip ELSE record.Content # ip

\* the comparison of main: sdk `currentIP == ip`, raw `record.Content == ip`
UpToDate == IF variant = "sdk" THEN currentIP = ip ELSE record.Content = ip

\* main.go 93-96, raw build 104-107
Compare ==
    /\ pc = "compare"
    /\ IF UpToDate
       THEN /\ pc' = "NoOpDone"
            /\ exitCode' = 0
            /\ UNCHANGED visited
       ELSE /\ pc' = "update"
            /\ visited' = Append(visited, "Update")
            /\ UNCHANGED exitCode
    /\ UNCHANGED <<variant, env, zone, pass, cfg, svcIdx, tried, ip, client,
                   listResp, record, currentIP, requests, err, edited,
                   history>>

\* main.go 98-102, raw build 109-113: updateDNSRecord(..., record.ID, ip)
Update ==
    /\ pc = "update"
    /\ requests' = Append(requests, UpdateRequest(cfg, record.ID, ip))
    /\ \E out \in UpdateOutcomes :
          /\ zone' = IF out.applied
                     THEN ApplyUpdate(zone, record.ID,
                                      UpdatePayload(cfg, ip))
                     ELSE zone
          /\ IF updateDNSRecord(out) = "none"
             THEN /\ pc' = "Done"
                  /\ exitCode' = 0
                  /\ UNCHANGED err
             ELSE Fatal(updateDNSRecord(out))
    /\ UNCHANGED <<variant, env, pass, cfg, svcIdx, tried, ip, client,
                   listResp, record, currentIP, visited, edited, history>>

UpdatesOf(reqs) == Len(SelectSeq(reqs, LAMBDA r : r.op = "update"))

\* the number of changes others have made to the zone
Edits ==
    Len(SelectSeq(history, LAMBDA h : h.edited)) + (IF edited THEN 1 ELSE 0)

\* between two invocations someone else sets the content of a record
ExternalEdit ==
    /\ pc = "loadConfig"
    /\ pass > 1
    /\ ~edited
    /\ Edits < MaxEdits
    /\ \E i \in 1..Len(zone), a \in Addrs :
          /\ zone[i].Content # Text("dotted", a, FALSE)
          /\ zone' = [zone EXCEPT ![i].Content = Text("dotted", a, FALSE)]
    /\ edited' = TRUE
    /\ UNCHANGED <<variant, env, pass, pc, cfg, svcIdx, tried, ip, client,
                   listResp, record, currentIP, requests, err, visited,
                   exitCode, history>>

\* the scheduler runs the binary again: nothing of the process survives
NextPass ==
    /\ pc \in Terminal
    /\ pass < MaxPasses
    /\ pass' = pass + 1
    /\ history' = Append(history, [end |-> pc, ip |-> ip,
                                   updates |-> UpdatesOf(requests),
                                   edited |-> edited])
    /\ edited' = FALSE
    /\ listResp' = NoListResponse
    /\ pc' = "loadConfig"
    /\ cfg' = ZeroConfig
    /\ svcIdx' = 1
    /\ tried' = <<>>
    /\ ip' = NoText
    /\ client' = {}
    /\ record' = NoRecord
    /\ currentIP' = NoText
    /\ requests' = <<>>
    /\ err' = "none"
    /\ visited' = <<>>
    /\ exitCode' = -1
    /\ UNCHANGED <<variant, env, zone>>

Next ==
    \/ LoadConfig
    \/ DiscoverStep
    \/ DiscoverExhausted
    \/ NewCloudflareClient
    \/ FetchRecord
    \/ Compare
    \/ Update
    \/ ExternalEdit
    \/ NextPass

Spec == Init /\ [][Next]_vars

\* the default service list, against one zone: discoverIP with three services
InitDiscovery ==
    /\ variant \in {"sdk", "raw"}
    /\ env = EnvDefaults
    /\ zone = <<ARecord("r1", <<"n">>, Text("dotted", 2, FALSE), 300, FALSE)>>
    /\ Started

SpecDiscovery == InitDiscovery /\ [][Next]_vars

\* loadConfig alone, on every environment of ConfigEnvs
InitConfig ==
    /\ variant \in {"sdk", "raw"}
    /\ env \in ConfigEnvs
    /\ zone = <<>>
    /\ Started

SpecConfig == InitConfig /\ [][LoadConfig]_vars

\* a step of the running process
ProgramStep ==
    \/ LoadConfig
    \/ DiscoverStep
    \/ DiscoverExhausted
    \/ NewCloudflareClient
    \/ FetchRecord
    \/ Compare
    \/ Update

\* one invocation, from start to exit: the process runs on while it has a
\* step to take, as main is sequential and every call of the http.Client
\* returns within its Timeout
SpecTermination == Init /\ [][ProgramStep]_vars /\ WF_vars(ProgramStep)

(***************************************************************************)
(* Properties.                                                             *)
(***************************************************************************)
Range(seq) == {seq[i] : i \in 1..Len(seq)}

UpdateRequests == SelectSeq(requests, LAMBDA r : r.op = "update")

ListRequests == SelectSeq(requests, LAMBDA r : r.op = "list")

\* the content of the fetched record as the driver reads it: the content
\* extractARecordIP hands back (sdk), the Content field (raw)
FetchedContent == IF variant = "sdk" THEN currentIP ELSE record.Content

\* the driver has left the Compare state
Compared == "Compare" \in Range(visited) /\ pc # "compare"

\* C1: when discovery succeeded and the fetched record's content equals the
\* discovered IP, the pass sends no update request and ends in NoOpDone
\* with exit status 0.
C1_NoUpdateWhenEqual ==
    (Compared /\ FetchedContent = ip)
        => /\ pc = "NoOpDone"
           /\ Len(UpdateRequests) = 0
           /\ exitCode = 0

C1_Witness ==
    /\ pc = "NoOpDone"
    /\ FetchedContent = ip
    /\ Len(ListRequests) = 1
    /\ Len(UpdateRequests) = 0

\* C2: when discovery and fetch succeeded and the fetched record's content
\* differs from the discovered IP, the pass sends exactly one update
\* request; it is addressed to the fetched record's identifier and its body
\* carries the discovered IP with the configured TTL and proxied flag.
C2_OneUpdateWhenDifferent ==
    (Compared /\ pc \in Terminal /\ FetchedContent # ip)
        => /\ Len(UpdateRequests) = 1
           /\ UpdateRequests[1].id = record.ID
           /\ UpdateRequests[1].payload.Content = ip
           /\ UpdateRequests[1].payload.TTL = cfg.TTL
           /\ UpdateRequests[1].payload.Proxied = cfg.Proxied

C2_Witness ==
    /\ pc = "Done"
    /\ FetchedContent # ip
    /\ record.TTL # cfg.TTL
    /\ record.Proxied # cfg.Proxied
    /\ Len(UpdateRequests) = 1
    /\ UpdateRequests[1].payload.TTL = cfg.TTL

\* a response whose body, white space aside, spells an address expressible
\* as IPv4
ValidIPv4Body(resp) ==
    resp.kind = "body" /\ resp.body.form \in {"dotted", "mapped"}

\* the entry of the service list at position i was queried and failed
FailedEntry(i) == ~tried[i].queried \/ ~ValidIPv4Body(tried[i].resp)

\* C3: discoverIP visits the entries in list order, once each; the first
\* entry answering with a valid IPv4 body ends the loop, its address in
\* dotted decimal is what discoverIP returns, and no later entry is queried.
C3_FirstValidServiceWins ==
    /\ \A i \in 1..Len(tried) :
          /\ tried[i].svc = i
          /\ tried[i].queried = ~NewRequestFails(cfg.IPServices[i])
    /\ \A i \in 1..Len(tried) :
          ~FailedEntry(i)
              => /\ i = Len(tried)
                 /\ pc # "discoverIP"
                 /\ ip = Text("dotted", tried[i].resp.body.addr, FALSE)
    /\ ip # NoText => (tried # <<>> /\ ~FailedEntry(Len(tried)))

C3_Witness ==
    /\ pc \in Terminal
    /\ Len(tried) = 3
    /\ tried[1].resp.kind = "transport"
    /\ tried[2].resp.kind = "body" /\ tried[2].resp.body.form = "v6"
    /\ tried[3].resp.body = Text("dotted", 1, TRUE)
    /\ ip = Text("dotted", 1, FALSE)

\* C4: discoverIP gives up, with the DiscoveryExhausted error and no IP,
\* exactly when every entry of the list has been tried and has failed; no
\* failure of a single service ends the run while an entry is untried.
C4_ExhaustedAfterAllFailed ==
    /\ err = "DiscoveryExhausted"
          => /\ pc = "Aborted"
             /\ ip = NoText
             /\ Len(tried) = Len(cfg.IPServices)
             /\ \A i \in 1..Len(tried) : tried[i].svc = i /\ FailedEntry(i)
    /\ (/\ cfg # ZeroConfig
        /\ pc # "discoverIP"
        /\ Len(tried) = Len(cfg.IPServices)
        /\ \A i \in 1..Len(tried) : FailedEntry(i))
          => err = "DiscoveryExhausted"
    /\ (pc \in Terminal /\ visited = <<"DiscoverIP">>)
          => Len(tried) = Len(cfg.IPServices)

C4_Witness ==
    /\ err = "DiscoveryExhausted"
    /\ Len(tried) = 3
    /\ tried[1].resp.kind = "read"
    /\ tried[2].resp.kind = "body" /\ tried[2].resp.body.form = "other"
    /\ tried[3].resp.kind = "body" /\ tried[3].resp.body.form = "v6"
    /\ requests = <<>>

\* the last invocation before this one
Last == history[Len(history)]

\* the addresses discovered by the invocations so far
DiscoveredIPs == ({h.ip : h \in Range(history)} \cup {ip}) \ {NoText}

RECURSIVE SumUpdates(_)
SumUpdates(h) == IF h = <<>> THEN 0 ELSE Head(h).updates + SumUpdates(Tail(h))

\* the update requests sent by all invocations so far
TotalUpdates == SumUpdates(history) + Len(UpdateRequests)

\* the invocations so far that ended in Done
TotalDone ==
    Len(SelectSeq(history, LAMBDA h : h.end = "Done"))
    + (IF pc = "Done" THEN 1 ELSE 0)

\* this invocation follows one that ended well, found the same address as
\* that one, and nobody else changed the zone in between
RepeatedPass ==
    /\ history # <<>>
    /\ Last.end \in {"Done", "NoOpDone"}
    /\ ~edited
    /\ ip # NoText
    /\ ip = Last.ip

\* C5 as stated: after a pass ending in Done or NoOpDone, a pass that
\* discovers the same IP, with no other change to the record, sends no
\* update and ends in NoOpDone; and over all passes with an unchanged IP at
\* most one update request is ever sent.
C5_AsStated ==
    /\ (RepeatedPass /\ pc \in Terminal)
          => (Len(UpdateRequests) = 0 /\ pc = "NoOpDone")
    /\ (Cardinality(DiscoveredIPs) <= 1 /\ Edits = 0) => TotalUpdates <= 1

\* C5 amended: after a pass ending in Done or NoOpDone, a pass that
\* discovers the same IP, with no other change to the record, sends no
\* update and, unless it aborts before the comparison, ends in NoOpDone;
\* and over all passes with an unchanged IP at most one ends in Done.
C5_Idempotent ==
    /\ RepeatedPass
          => /\ Len(UpdateRequests) = 0
             /\ pc \notin {"update", "Done"}
             /\ Compared => pc = "NoOpDone"
             /\ pc = "Aborted" => "Compare" \notin Range(visited)
    /\ (Cardinality(DiscoveredIPs) <= 1 /\ Edits = 0) => TotalDone <= 1

C5_Witness ==
    /\ RepeatedPass
    /\ Last.end = "Done"
    /\ Last.updates = 1
    /\ pc = "NoOpDone"

\* the states of the driver, in the order of the state machine
DriverStates == <<"DiscoverIP", "FetchRecord", "Compare", "Update">>

\* the list request was answered, and the answer gives no record to work on
FetchFailed ==
    /\ listResp.kind # "none"
    /\ \/ listResp.kind \notin {"json", "page"}
       \/ ~listResp.success
       \/ listResp.result = <<>>

\* the list request was answered with a record that is no A record
RecordUnusable ==
    /\ listResp.kind = "page"
    /\ listResp.result # <<>>
    /\ listResp.result[1].Type # <<"A">>

C6_States ==
    /\ \E n \in 0..Len(DriverStates) : visited = SubSeq(DriverStates, 1, n)
    /\ pc = "discoverIP" => visited = SubSeq(DriverStates, 1, 1)
    /\ pc = "fetchRecord" => visited = SubSeq(DriverStates, 1, 2)
    /\ pc = "compare" => visited = SubSeq(DriverStates, 1, 3)
    /\ pc = "update" => visited = SubSeq(DriverStates, 1, 4)
    /\ pc = "Done" => visited = DriverStates
    /\ pc = "NoOpDone" => visited = SubSeq(DriverStates, 1, 3)
    /\ (err # "none") = (pc = "Aborted")
    /\ \A i, j \in 1..Len(tried) : tried[i].svc = tried[j].svc => i = j
    /\ Len(ListRequests) <= 1
    /\ Len(UpdateRequests) <= 1
    /\ Len(ListRequests) = 1 => "FetchRecord" \in Range(visited)
    /\ Len(UpdateRequests) = 1
          => (visited = DriverStates /\ requests[1].op = "list")
    /\ err = "DiscoveryExhausted"
          => (requests = <<>> /\ visited = SubSeq(DriverStates, 1, 1))
    /\ (FetchFailed \/ RecordUnusable)
          => /\ pc = "Aborted"
             /\ visited = SubSeq(DriverStates, 1, 2)
             /\ Len(UpdateRequests) = 0

\* an invocation that has ended does nothing more
C6_Ended ==
    pc \in Terminal
        => \/ UNCHANGED <<pc, visited, requests, tried, zone, err>>
           \/ pass' = pass + 1

\* C6: the driver enters DiscoverIP, FetchRecord, Compare and Update in
\* that order, each at most once in a pass; a failure ends the pass in the
\* state it happened in, nothing is tried again, a failed discovery sends
\* no provider request and a failed fetch or unusable record no update.
C6_OrderedNoRetry == [](C6_States) /\ [][C6_Ended]_vars

C6_Witness ==
    /\ pc = "Aborted"
    /\ err = "ProviderRequestFailed"
    /\ visited = DriverStates
    /\ Len(ListRequests) = 1
    /\ Len(UpdateRequests) = 1

\* the answer to the list request reports failure: success=false on the
\* wire (raw), the provider's error handed back by the client (sdk)
ReportsFailure ==
    \/ variant = "raw" /\ listResp.kind = "json" /\ ~listResp.success
    \/ variant = "sdk" /\ listResp.kind = "apierror"

IDsOf(z) == {z[i].ID : i \in 1..Len(z)}

\* the list request was answered with success and no record
NoMatch ==
    /\ listResp.kind \in {"json", "page"}
    /\ listResp.success
    /\ listResp.result = <<>>

C8_NotFound ==
    /\ NoMatch
          => /\ err = "RecordNotFound"
             /\ pc = "Aborted"
             /\ Len(UpdateRequests) = 0
    /\ \A r \in Range(requests) :
          /\ r.op \in {"list", "update"}
          /\ r.op = "update" => r.id \in IDsOf(zone)

\* C8: a list answer without records ends the pass with the not-found
\* error and without an update request; the program sends only list
\* requests and updates of records that exist, so the zone never gains or
\* loses a record.
C8_NeverCreatesOrDeletes ==
    [](C8_NotFound)
    /\ [][Len(zone') = Len(zone) /\ IDsOf(zone') = IDsOf(zone)]_vars

C8_Witness ==
    /\ NoMatch
    /\ zone # <<>>
    /\ pc = "Aborted"
    /\ err = "RecordNotFound"

\* C9: every provider request of the token method carries Authorization:
\* "Bearer " followed by the key, with or without a configured email;
\* every provider request of the global-key method carries X-Auth-Key with
\* the key and X-Auth-Email with the email.
C9_AuthHeaders ==
    \A r \in Range(requests) :
        /\ cfg.AuthMethod = methodToken
              => <<"Authorization", <<"B","e","a","r","e","r"," ">>
                                    \o cfg.AuthKey>> \in r.headers
        /\ cfg.AuthMethod = methodGlobal
              => /\ <<"X-Auth-Key", cfg.AuthKey>> \in r.headers
                 /\ <<"X-Auth-Email", cfg.AuthEmail>> \in r.headers
                 /\ cfg.AuthEmail # <<>>

C9_Witness ==
    /\ cfg.AuthMethod = methodToken
    /\ cfg.AuthEmail # <<>>
    /\ Len(ListRequests) = 1
    /\ Len(UpdateRequests) = 1
    /\ variant = "raw"

HasHeader(r, name) == \E h \in r.headers : h[1] = name

\* C10: a provider request carries the bearer Authorization header or the
\* X-Auth-Key header, never both, and the list request and the update
\* request of a pass carry the same authentication headers.
C10_OneStrategyPerPass ==
    /\ \A r \in Range(requests) :
          HasHeader(r, "Authorization") # HasHeader(r, "X-Auth-Key")
    /\ \A r1, r2 \in Range(requests) : r1.headers = r2.headers

C10_Witness ==
    /\ cfg.AuthMethod = methodGlobal
    /\ Len(ListRequests) = 1
    /\ Len(UpdateRequests) = 1
    /\ HasHeader(requests[2], "X-Auth-Key")
    /\ variant = "raw"

\* the value is unset, empty or white space only
Blank(s) == \A i \in 1..Len(s) : IsSpace(s[i])

\* loadConfig has returned
Loaded == pc # "loadConfig"

\* the environment breaks one of the conditions on a Config: no key; a
\* method that is neither token nor global; the global method without an
\* email; no zone identifier; no record name; a record type other than A;
\* a TTL that is no integer of at least 60
EnvViolates(e) ==
    \/ Blank(e.CF_AUTH_KEY)
    \/ /\ ~Blank(e.CF_AUTH_METHOD)
       /\ ToLower(TrimSpace(e.CF_AUTH_METHOD))
              \notin {<<"t","o","k","e","n">>, <<"g","l","o","b","a","l">>}
    \/ /\ ToLower(TrimSpace(e.CF_AUTH_METHOD)) = <<"g","l","o","b","a","l">>
       /\ Blank(e.CF_AUTH_EMAIL)
    \/ Blank(e.CF_ZONE_ID)
    \/ Blank(e.CF_RECORD_NAME)
    \/ /\ ~Blank(e.CF_RECORD_TYPE)
       /\ ToUpper(TrimSpace(e.CF_RECORD_TYPE)) # <<"A">>
    \/ /\ ~Blank(e.CF_TTL)
       /\ \/ Atoi(TrimSpace(e.CF_TTL)).err
          \/ Atoi(TrimSpace(e.CF_TTL)).val < 60

\* C11: a Config that loadConfig returns without error has a key, the
\* method token or global, an email when the method is global, a zone
\* identifier, a record name, the record type A, a TTL of at least 60 and
\* at least one IP service; on an environment that breaks one of these
\* (the service list aside) loadConfig returns an error and the zero
\* Config.
C11_ConfigValid ==
    Loaded
        => /\ err = "none"
                 => /\ cfg.AuthKey # <<>>
                    /\ cfg.AuthMethod \in {<<"t","o","k","e","n">>,
                                           <<"g","l","o","b","a","l">>}
                    /\ cfg.AuthMethod = <<"g","l","o","b","a","l">>
                          => cfg.AuthEmail # <<>>
                    /\ cfg.ZoneID # <<>>
                    /\ cfg.RecordName # <<>>
                    /\ cfg.RecordType = <<"A">>
                    /\ cfg.TTL >= 60
                    /\ Len(cfg.IPServices) > 0
           /\ EnvViolates(env)
                 => /\ err = "ConfigInvalid"
                    /\ pc = "Aborted"
                    /\ cfg = ZeroConfig

C11_Witness ==
    /\ Loaded
    /\ err = "none"
    /\ ~EnvViolates(env)
    /\ cfg.AuthMethod = <<"g","l","o","b","a","l">>
    /\ cfg.AuthEmail = <<"e","@","x">>
    /\ cfg.TTL = 60
    /\ env.CF_RECORD_TYPE = <<" ","a">>
    /\ env.CF_IP_SERVICES = <<",">>

\* only the three required variables are set
OnlyRequiredSet(e) ==
    /\ ~Blank(e.CF_AUTH_KEY)
    /\ ~Blank(e.CF_ZONE_ID)
    /\ ~Blank(e.CF_RECORD_NAME)
    /\ e.CF_AUTH_METHOD = <<>>
    /\ e.CF_AUTH_EMAIL = <<>>
    /\ e.CF_RECORD_TYPE = <<>>
    /\ e.CF_TTL = <<>>
    /\ e.CF_PROXIED = <<>>
    /\ e.CF_IP_SERVICES = <<>>

\* the value holds nothing but commas and white space, or nothing at all
OnlyCommasAndSpace(s) == \A i \in 1..Len(s) : s[i] = "," \/ IsSpace(s[i])

\* C12: with only the key, the zone identifier and the record name set,
\* loadConfig succeeds with the method token, the record type A, the TTL
\* 300, proxied false and the three default IP services in their order; a
\* CF_IP_SERVICES value that is empty or holds only commas and white space
\* gives the default services as well, never an empty list.
C12_Defaults ==
    Loaded
        => /\ OnlyRequiredSet(env)
                 => /\ err = "none"
                    /\ pc = "discoverIP"
                    /\ cfg.AuthMethod = <<"t","o","k","e","n">>
                    /\ cfg.RecordType = <<"A">>
                    /\ cfg.TTL = 300
                    /\ cfg.Proxied = FALSE
                    /\ cfg.IPServices = defaultIPServices
                    /\ Len(cfg.IPServices) = 3
           /\ (OnlyCommasAndSpace(env.CF_IP_SERVICES) /\ err = "none")
                 => cfg.IPServices = defaultIPServices

C12_Witness ==
    /\ Loaded
    /\ err = "none"
    /\ env.CF_IP_SERVICES = <<" ",","," ",",">>
    /\ env.CF_TTL = <<>>
    /\ env.CF_PROXIED = <<>>
    /\ env.CF_AUTH_METHOD = <<>>
    /\ cfg.IPServices = defaultIPServices
    /\ cfg.TTL = 300

\* the driver went from Compare to Update
UpdateFired == "Update" \in Range(visited)

\* the content of the fetched record spells the discovered address: in
\* dotted decimal or as an IPv4-mapped IPv6 address, with or without white
\* space around it
SameAddress ==
    /\ record.Content.form \in {"dotted", "mapped"}
    /\ record.Content.addr = ip.addr

\* the content of the fetched record is the discovered IP character for
\* character, white space around it ignored by the sdk build only
SameText ==
    /\ record.Content.form = "dotted"
    /\ record.Content.addr = ip.addr
    /\ variant = "raw" => ~record.Content.pad

\* C13 as stated: whenever the content of the fetched record denotes the
\* discovered address, whatever its spelling and the white space around
\* it, the driver does not go from Compare to Update.
C13_AsStated == (Compared /\ SameAddress) => ~UpdateFired

\* C13 amended: the comparison is string equality of the discovered IP in
\* dotted decimal with the content of the fetched record, from which the
\* sdk build trims white space and the raw build nothing; the driver goes
\* from Compare to Update exactly when these strings differ.
C13_CompareOnText == Compared => (UpdateFired <=> ~SameText)

C13_Witness ==
    /\ variant = "sdk"
    /\ pc = "NoOpDone"
    /\ record.Content.pad
    /\ SameText
    /\ Len(UpdateRequests) = 0

\* the entries of the service list that got a request
ServiceRequests == SelectSeq(tried, LAMBDA t : t.queried)

C14_Bounded ==
    /\ Len(ServiceRequests) <= Len(cfg.IPServices)
    /\ \A i, j \in 1..Len(ServiceRequests) :
          ServiceRequests[i].svc = ServiceRequests[j].svc => i = j
    /\ Len(ListRequests) <= 1
    /\ Len(UpdateRequests) <= 1
    /\ Len(requests) = Len(ListRequests) + Len(UpdateRequests)
    /\ pc \notin Terminal => exitCode = -1
    /\ pc \in Terminal => exitCode \in {0, 1}
    /\ pc \in Terminal => (exitCode = 0 <=> pc \in {"NoOpDone", "Done"})
    /\ pc = "Aborted" <=> err # "none"

\* a pass that has reached a terminal state stays in it
C14_OneTerminal ==
    pc \in Terminal
        => \/ pc' = pc /\ exitCode' = exitCode /\ requests' = requests
           \/ pass' = pass + 1

\* C14: every pass reaches a terminal state - NoOpDone, Done or Aborted
\* with an error - and stays in it, having sent at most one request to
\* each configured IP service, one list request and one update request;
\* the exit status is zero exactly when the state is NoOpDone or Done.
C14_Terminates ==
    /\ [](C14_Bounded)
    /\ [][C14_OneTerminal]_vars
    /\ (pc \notin Terminal) ~> (pc \in Terminal)

C14_Witness ==
    /\ pc = "Aborted"
    /\ exitCode = 1
    /\ Len(tried) = Len(cfg.IPServices)
    /\ Len(ServiceRequests) = 1
    /\ Len(ListRequests) = 1
    /\ Len(UpdateRequests) = 1
    /\ cfg.AuthMethod = methodGlobal

\* the TTL or the proxied flag of r is not the configured one
Drift(r) == r.TTL # cfg.TTL \/ r.Proxied # cfg.Proxied

\* a pass in NoOpDone has sent no update, and the zone still holds the
\* record as it was fetched, its drift included
C15_NoOpLeavesRecord ==
    pc = "NoOpDone"
        => /\ Len(UpdateRequests) = 0
           /\ ~UpdateFired
           /\ FetchedContent = ip
           /\ \E i \in 1..Len(zone) :
                 /\ zone[i].ID = record.ID
                 /\ zone[i].Content = record.Content
                 /\ zone[i].TTL = record.TTL
                 /\ zone[i].Proxied = record.Proxied
                 /\ Drift(record) => Drift(zone[i])

\* the TTL or the proxied flag of a record changes only in the update step
\* of a pass whose comparison found the content different from the
\* discovered IP, and the zone changes in no step of a pass that ends in
\* NoOpDone
C15_DriftCorrectedByUpdate ==
    /\ \A i \in 1..Len(zone) :
          (zone'[i].TTL # zone[i].TTL \/ zone'[i].Proxied # zone[i].Proxied)
              => /\ pc = "update"
                 /\ FetchedContent # ip
                 /\ zone[i].ID = record.ID
                 /\ Len(UpdateRequests') = 1
    /\ (zone' # zone) => (pc = "update" \/ pc = "loadConfig")
    /\ pc' = "NoOpDone" => zone' = zone

\* C15: a pass that ends in NoOpDone leaves the record as it is: when the
\* content equals the discovered IP while the TTL or the proxied flag is
\* not the configured one, no update is sent and the drift stays; TTL and
\* proxied flag are corrected only by a pass in which the comparison finds
\* the address different.
C15_DriftPersists ==
    [](C15_NoOpLeavesRecord) /\ [][C15_DriftCorrectedByUpdate]_vars

C15_Witness ==
    /\ pass = 2
    /\ Last.end = "NoOpDone"
    /\ pc = "NoOpDone"
    /\ ~edited
    /\ record.TTL # cfg.TTL
    /\ record.Proxied # cfg.Proxied
    /\ Drift(zone[1])

\* the status of the response is 2xx
Status2xx(resp) == resp.status >= 200 /\ resp.status <= 299

\* the entry at position i ended discoverIP, which returned its address
Accepted(i) ==
    /\ i = Len(tried)
    /\ pc # "discoverIP"
    /\ err # "DiscoveryExhausted"
    /\ ip = Text("dotted", tried[i].resp.body.addr, FALSE)

\* the entry at position i was passed over: the loop went on to the entry
\* after it, or found none left
Skipped(i) ==
    /\ ~Accepted(i)
    /\ \/ i < Len(tried) /\ tried[i + 1].svc = i + 1
       \/ i = Len(tried) /\ pc = "discoverIP" /\ svcIdx = i + 1
       \/ i = Len(tried) /\ i = Len(cfg.IPServices)
             /\ err = "DiscoveryExhausted"

\* C16: discoverIP accepts or skips a service on the body of its response
\* alone: a response whose status is not 2xx and whose body, white space
\* trimmed, is a valid IPv4 address is accepted and its address returned;
\* a 2xx response whose body is no valid IPv4 address is skipped and the
\* next service is asked.
C16_StatusIgnored ==
    \A i \in 1..Len(tried) :
        tried[i].resp.kind = "body"
            => /\ ValidIPv4Body(tried[i].resp) => Accepted(i)
               /\ ~ValidIPv4Body(tried[i].resp) => Skipped(i)
               /\ (~Status2xx(tried[i].resp) /\ ValidIPv4Body(tried[i].resp))
                     => ip = Text("dotted", tried[i].resp.body.addr, FALSE)
               /\ (Status2xx(tried[i].resp)
                   /\ ~ValidIPv4Body(tried[i].resp))
                     => (pc # "discoverIP" /\ ip # NoText => i < Len(tried))

C16_Witness ==
    /\ Len(tried) = 2
    /\ tried[1].resp = [kind |-> "body", status |-> 200,
                        body |-> Text("other", 0, FALSE)]
    /\ tried[2].resp = [kind |-> "body", status |-> 500,
                        body |-> Text("dotted", 2, FALSE)]
    /\ ip = Text("dotted", 2, FALSE)
    /\ pc \in Terminal
    /\ Len(ListRequests) = 1

\* the list request was answered with more than one record
MultiMatch ==
    /\ listResp.kind \in {"json", "page"}
    /\ listResp.success
    /\ Len(listResp.result) > 1

\* the first record of the answer, in provider order
FirstListed == listResp.result[1]

\* the content c is the discovered IP as the build compares them
EqualsDiscovered(c) ==
    /\ c.form = "dotted"
    /\ c.addr = ip.addr
    /\ variant = "raw" => ~c.pad

C17_FirstOnly ==
    MultiMatch
        => /\ record = FirstListed
           /\ \A i \in 2..Len(listResp.result) :
                 listResp.result[i].ID # record.ID
           /\ Compared
                 => (UpdateFired <=> ~EqualsDiscovered(FirstListed.Content))
           /\ \A r \in Range(UpdateRequests) : r.id = FirstListed.ID

\* the update step changes no record but the first of the answer
C17_OthersUntouched ==
    (MultiMatch /\ pc = "update")
        => \A i \in 1..Len(zone) :
              zone'[i] # zone[i] => zone[i].ID = FirstListed.ID

\* C17: when the list request is answered with more than one record,
\* fetchDNSRecord returns the first of them in provider order; the
\* comparison reads that record's content, an update request names that
\* record's identifier, and no other record of the answer is compared or
\* updated.
C17_FirstRecord == [](C17_FirstOnly) /\ [][C17_OthersUntouched]_vars

C17_Witness ==
    /\ MultiMatch
    /\ pc = "Done"
    /\ record.ID = "r2"
    /\ listResp.result[2].ID = "r3"
    /\ listResp.result[2].Content = ip
    /\ zone[2].Content = ip
    /\ zone[3] = listResp.result[2]

====
